---- MODULE Spec2Model ----
(***************************************************************************)
(* Model of the 'tags' search-index synchronisation (onIndexSetup and     *)
(* onIndexUpdate of the tags search index), of the Meilisearch engine it  *)
(* talks to, of the processor that calls it with the watermark and of the *)
(* writers that change the store while a run is in progress; and model of *)
(* the grouping of the notification processors into notificationBatches;  *)
(* and model of the AutocompleteSearch component: its search client, its  *)
(* dropdown items and the effects that refine the query.                  *)
(*                                                                         *)
(* An optional value (Date | null, Index | null) is a sequence of length  *)
(* at most one: <<>> is null/undefined, <<v>> is the value v.             *)
(***************************************************************************)
EXTENDS Integers, Sequences, FiniteSets, TLC

\* ------------------------------------------------------------------ bounds

\* A small Tag table holds 0..MaxSmall ordinary tags.
MaxSmall == 1

\* The large Tag table holds READ_BATCH_SIZE + MaxOver ordinary tags.
MaxOver == 0

\* Timestamps are 0..MaxTime; the run starts at MaxTime + 1.
MaxTime == 1

\* The pending queue holds at most MaxQueue rows.
MaxQueue == 2

\* At most MaxNew tags are created while a run is in progress.
MaxNew == 1

\* At most MaxEnqueue rows are added to the pending queue while a run is in progress.
MaxEnqueue == 1

\* The processor is triggered at most MaxRuns times.
MaxRuns == 2

\* notificationProcessors has at most MaxProcessors entries.
MaxProcessors == 3

\* The priorities of the notification processors are 0..MaxPriority, or missing.
MaxPriority == 1

\* searchClient.search is called with at most MaxRequests requests.
MaxRequests == 2

\* A result set reports up to DEFAULT_DROPDOWN_ITEM_LIMIT + MaxMore hits.
MaxMore == 1

\* The hidden preferences hide some of the hits 1..MaxHidden.
MaxHidden == 2

\* A text of the search box has at most MaxText tokens.
MaxText == 1

\* The user changes the text of the search box at most MaxEdits times.
MaxEdits == 2

\* The user picks an item of the dropdown at most MaxClicks times.
MaxClicks == 1

\* ------------------------------------------------------- program constants

READ_BATCH_SIZE == 100

INDEX_NAME == "tags"

DEFAULT_DROPDOWN_ITEM_LIMIT == 6

\* MetricTimeframe.AllTime, and one other timeframe of the enum.
AllTime == "AllTime"

Day == "Day"

\* The fields selected from a TagMetric row.
MetricFields ==
    {"postCount", "articleCount", "followerCount", "modelCount", "imageCount", "hiddenCount"}

\* The scalar fields selected from a Tag row, next to `metrics`.
TagFields == {"id", "name", "nsfw", "isCategory"}

\* ------------------------------------------------------------------- state

VARIABLES
    client,          \* TRUE iff the module-level Meilisearch client is configured
    freeTag,         \* db.tag: the columns of tag 1, chosen freely (optional)
    ordinaryTags,    \* db.tag: the number of ordinary tags that follow it
    newTags,         \* db.tag: the number of tags created since the run started
    searchIndexUpdateQueue, \* db.searchIndexUpdateQueue: its [type, id] rows, in insertion order
    watermark,       \* the processor's stored lastUpdatedAt of the index (optional)
    lock,            \* the processor's run lock of the index: TRUE iff a run holds it
    runsLeft,        \* the number of triggers the processor still receives
    runLog,          \* the starts and ends of the runs of the index, in order
    lastUpdatedAt,   \* SearchIndexRunContext.lastUpdatedAt of the current run
    pc,              \* position of the run
    offset,          \* onIndexUpdate: let offset
    tagTasks,        \* onIndexUpdate: const tagTasks (task uids, in push order)
    queuedItems,     \* onIndexUpdate: const queuedItems (ids, one per queue row)
    tags,            \* onIndexUpdate: const tags of the current iteration
    setupTasks,      \* onIndexSetup: the two attribute tasks (uids)
    index,           \* engine: TRUE iff the index 'tags' exists
    engineTasks,     \* engine: its task queue, uid = position
    fetchLog,        \* every db.tag.findMany of the run: its arguments and result
    calls,           \* the database and engine calls of the run, in order
    notificationProcessors, \* the entries [key, priority] of notificationProcessors
    notifications,   \* utils.notifications: const notifications
    notificationBatches, \* utils.notifications: const notificationBatches
    currentBatch,    \* utils.notifications: let currentBatch, as a position in notificationBatches
    npc              \* position of the module code of utils.notifications

VARIABLES
    requests,        \* searchClient.search: its argument
    response,        \* searchClient.search: what its promise resolved with (optional)
    backendCalls,    \* every argument meilisearch.search was called with, in order
    spc,             \* position of the call of searchClient.search
    results,         \* useHits: results, with its hits (optional)
    hiddenIds,       \* useHiddenPreferencesContext: the ids the user's preferences hide
    items,           \* AutocompleteSearchContentInner: const items
    indexName,       \* AutocompleteSearchContentInner: the prop indexName
    search,          \* useState: search
    debouncedSearch, \* useDebouncedValue(search, 300)
    query,           \* useSearchBox: query
    selectedItem,    \* useState: selectedItem (optional)
    status,          \* useInstantSearch: status
    filters,         \* useState: filters
    searchPageQuery, \* useState: searchPageQuery
    route,           \* next/router: the url of the last router.push (optional)
    refineDeps,      \* [debouncedSearch, query] of the last run of the refining effect (optional)
    clearDeps,       \* [debouncedSearch] of the last run of the clearing effect (optional)
    edits,           \* the number of changes the user has made to the text
    clicks,          \* the number of items the user has picked
    editedSincePick  \* TRUE iff the user has changed the text after the last pick

\* The state of the search client and of a call of its search.
clientVars == << requests, response, backendCalls, spc >>

\* What the dropdown is made of.
hitsVars == << results, hiddenIds, items >>

\* The state of the search box and of its two effects.
boxVars ==
    << indexName, search, debouncedSearch, query, selectedItem, filters, searchPageQuery,
       route, refineDeps, clearDeps, edits, clicks, editedSincePick >>

\* The state of the component AutocompleteSearch.
autocompleteVars == << clientVars, hitsVars, boxVars, status >>

\* The state of the module utils.notifications.
notificationVars ==
    << notificationProcessors, notifications, notificationBatches, currentBatch, npc >>

\* The state of the processor besides the watermark.
processorVars == << lock, runsLeft, runLog >>

vars ==
    << client, freeTag, ordinaryTags, newTags, searchIndexUpdateQueue, watermark, processorVars,
       lastUpdatedAt, pc, offset, tagTasks, queuedItems, tags, setupTasks, index, engineTasks,
       fetchLog, calls, notificationVars, autocompleteVars >>

\* ------------------------------------------------------------------ inputs

Times == 0..MaxTime

\* The run's start time: later than every timestamp in the store.
RunStart == MaxTime + 1

\* The numbers of ordinary tags: a few, or at least a page of them.
OrdinaryCounts == (0..MaxSmall) \cup {READ_BATCH_SIZE + MaxOver}

MetricRow(tf, n) ==
    [timeframe |-> tf, postCount |-> n, articleCount |-> n, followerCount |-> n,
     modelCount |-> n, imageCount |-> n, hiddenCount |-> n]

\* A tag has at most one metric row per timeframe: here a Day row, with or
\* without an AllTime row.
MetricChoices == {<<MetricRow(Day, 1)>>, <<MetricRow(Day, 1), MetricRow(AllTime, 2)>>}

TagRow(id, unlisted, adminOnly, createdAt, updatedAt, metrics) ==
    [id |-> id, name |-> id, nsfw |-> FALSE, isCategory |-> FALSE,
     unlisted |-> unlisted, adminOnly |-> adminOnly,
     createdAt |-> createdAt, updatedAt |-> updatedAt, metrics |-> metrics]

\* An ordinary tag: listed, not admin-only, created and updated at MaxTime,
\* with an AllTime metric row.
OrdinaryRow(id) == TagRow(id, FALSE, FALSE, MaxTime, MaxTime, <<MetricRow(AllTime, 2)>>)

\* The columns of a freely chosen tag; a row is never updated before it is created.
FreeColumns ==
    {r \in [unlisted : BOOLEAN, adminOnly : BOOLEAN, createdAt : Times,
             updatedAt : Times, metrics : MetricChoices] : r.createdAt <= r.updatedAt}

\* A tag created while the run is in progress: listed, not admin-only, created
\* and updated at the start time of the run or later.
NewRow(id) == TagRow(id, FALSE, FALSE, RunStart, RunStart, <<MetricRow(AllTime, 2)>>)

\* The Tag table: the freely chosen rows v (ids 1..Len(v)) followed by b ordinary
\* rows and by n rows created since the run started.
TagTable(v, b, n) ==
    [i \in 1..(Len(v) + b + n) |->
        IF i <= Len(v)
        THEN TagRow(i, v[i].unlisted, v[i].adminOnly, v[i].createdAt, v[i].updatedAt,
                    v[i].metrics)
        ELSE IF i <= Len(v) + b THEN OrdinaryRow(i) ELSE NewRow(i)]

QueueTypes == {INDEX_NAME, "models"}

\* The queue rows of the model name tag 1.
QueueRows == [type : QueueTypes, id : {1}]

\* The pending queues without a repeated row.
DistinctQueues ==
    {<<>>, <<[type |-> INDEX_NAME, id |-> 1]>>, <<[type |-> "models", id |-> 1]>>,
     <<[type |-> INDEX_NAME, id |-> 1], [type |-> "models", id |-> 1]>>}

\* The pending queues of at most MaxQueue rows; a row may be repeated.
RepeatingQueues == UNION {[1..n -> QueueRows] : n \in 0..MaxQueue}

Optional(S) == {<<>>} \cup {<<x>> : x \in S}

\* ---------------------------------------------------------------- database

\* db.tag: the Tag table, a function id -> row.
tag == TagTable(freeTag, ordinaryTags, newTags)

\* The object {} of JavaScript: a record without fields.
EmptyObject == [f \in {} |-> 0]

\* db.searchIndexUpdateQueue.findMany({select: {id}, where: {type: INDEX_NAME}}).
\* One id per matching row.
FindManyQueue ==
    LET rows == SelectSeq(searchIndexUpdateQueue, LAMBDA r : r.type = INDEX_NAME)
    IN  [k \in 1..Len(rows) |-> rows[k].id]

\* id: {in: ids}.
In(id, ids) == \E k \in 1..Len(ids) : ids[k] = id

\* The where clause without its third alternative, the queued ids.
TagWhereWithoutQueue(t, lu, qi) ==
    /\ t.unlisted = FALSE
    /\ t.adminOnly = FALSE
    /\ \/ lu = <<>>
       \/ t.createdAt > lu[1]
       \/ t.updatedAt > lu[1]

\* The where clause of db.tag.findMany: lu is lastUpdatedAt, qi the queued ids.
\* `OR: undefined` puts no further condition on the row.
TagWhere(t, lu, qi) ==
    /\ t.unlisted = FALSE
    /\ t.adminOnly = FALSE
    /\ \/ lu = <<>>
       \/ t.createdAt > lu[1]
       \/ t.updatedAt > lu[1]
       \/ In(t.id, qi)

\* The select clause of db.tag.findMany: four scalars and the AllTime metric rows,
\* each reduced to its six counters.
TagSelect(t) ==
    [id |-> t.id, name |-> t.name, nsfw |-> t.nsfw, isCategory |-> t.isCategory,
     metrics |->
        LET rows == SelectSeq(t.metrics, LAMBDA m : m.timeframe = AllTime)
        IN  [k \in 1..Len(rows) |-> [f \in MetricFields |-> rows[k][f]]]]

Reverse(s) == [k \in 1..Len(s) |-> s[Len(s) + 1 - k]]

\* The ids of the rows the where clause matches, in one of the orders the store
\* may return them in (the query has no orderBy).
Orders == {"asc", "desc"}

MatchingIds(rows, lu, qi, ord) ==
    LET all == [k \in 1..Len(rows) |-> k]
        asc == SelectSeq(all, LAMBDA k : TagWhere(rows[k], lu, qi))
    IN  IF ord = "asc" THEN asc ELSE Reverse(asc)

Min(a, b) == IF a <= b THEN a ELSE b

\* skip and take: the ids of the matching rows skip + 1 .. skip + take.
PageOfIds(skip, take, lu, qi, ord) ==
    LET ids == MatchingIds(tag, lu, qi, ord)
    IN  SubSeq(ids, skip + 1, Min(skip + take, Len(ids)))

\* db.tag.findMany({skip, take, select, where}).
FindManyTags(skip, take, lu, qi, ord) ==
    LET rows == tag
        page == PageOfIds(skip, take, lu, qi, ord)
    IN  [k \in 1..Len(page) |-> TagSelect(rows[page[k]])]

\* --------------------------------------------------------------- transform

\* The transform with counters of zero where the tag has no metric row.
IndexReadyRecordZeroDefault(tagRecord) ==
    [tagRecord EXCEPT
        !.metrics = IF Len(tagRecord.metrics) > 0
                    THEN tagRecord.metrics[1]
                    ELSE [f \in MetricFields |-> 0]]

\* tags.map((tagRecord) => ({...tagRecord, metrics: {...(tagRecord.metrics[0] || {})}})).
IndexReadyRecord(tagRecord) ==
    [tagRecord EXCEPT
        !.metrics = IF Len(tagRecord.metrics) > 0 THEN tagRecord.metrics[1] ELSE EmptyObject]

IndexReadyRecords(ts) == [k \in 1..Len(ts) |-> IndexReadyRecord(ts[k])]

\* ------------------------------------------------------------------ engine

\* What no step of a run writes: the client, the two tables and the state of
\* the module utils.notifications and of the component AutocompleteSearch.
inputs ==
    << client, freeTag, ordinaryTags, newTags, searchIndexUpdateQueue, notificationVars,
       autocompleteVars >>

EnqueuedTask(type, docs) == [type |-> type, docs |-> docs, status |-> "enqueued"]

\* A task is finished once the engine no longer has it enqueued.
Finished(uid) == engineTasks[uid].status # "enqueued"

AllFinished(uids) == \A k \in 1..Len(uids) : Finished(uids[k])

\* The engine processes its tasks in the order it accepted them; a task ends
\* succeeded or failed.
EngineProcess ==
    \E uid \in 1..Len(engineTasks), st \in {"succeeded", "failed"} :
        /\ engineTasks[uid].status = "enqueued"
        /\ \A k \in 1..(uid - 1) : Finished(k)
        /\ engineTasks' = [engineTasks EXCEPT ![uid].status = st]
        /\ index' = (index \/ (st = "succeeded" /\ engineTasks[uid].type = "documentAdditionOrUpdate"))
        /\ UNCHANGED << inputs, processorVars, watermark, lastUpdatedAt, pc,
                        offset, tagTasks, queuedItems, tags, setupTasks, fetchLog, calls >>

\* ------------------------------------------------------------ onIndexSetup

\* onIndexUpdate without its test of the client.
OnIndexUpdateEntryWithoutTest ==
    /\ pc = "onIndexUpdate"
    /\ pc' = "onIndexSetup"
    /\ UNCHANGED << inputs, processorVars, watermark, lastUpdatedAt, offset, tagTasks,
                    queuedItems, tags, setupTasks, index, engineTasks, fetchLog, calls >>

\* Entry of onIndexUpdate: `if (!client) return`, then the call of onIndexSetup.
OnIndexUpdateEntry ==
    /\ pc = "onIndexUpdate"
    /\ pc' = IF ~client THEN "returned" ELSE "onIndexSetup"
    /\ UNCHANGED << inputs, processorVars, watermark, lastUpdatedAt, offset, tagTasks,
                    queuedItems, tags, setupTasks, index, engineTasks, fetchLog, calls >>

\* Entry of onIndexSetup: `if (!client) return`, which takes onIndexUpdate on
\* at line 57.
OnIndexSetupEntry ==
    /\ pc = "onIndexSetup"
    /\ pc' = IF ~client THEN "queueFindMany" ELSE "getOrCreateIndex"
    /\ UNCHANGED << inputs, processorVars, watermark, lastUpdatedAt, offset, tagTasks,
                    queuedItems, tags, setupTasks, index, engineTasks, fetchLog, calls >>

\* getOrCreateIndex of ~/server/meilisearch/util, called with a client configured:
\* it gives the index, found or newly created, or it throws.
GetOrCreateIndexResults == {"index", "throws"}

\* const index = await getOrCreateIndex(INDEX_NAME); if (!index) return;
\* Without an index onIndexSetup returns and onIndexUpdate goes on at line 57.
GetOrCreateIndex ==
    /\ pc = "getOrCreateIndex"
    /\ calls' = Append(calls, "getOrCreateIndex")
    /\ \E result \in GetOrCreateIndexResults :
        /\ index' = (index \/ result = "index")
        /\ pc' = CASE result = "index" -> "updateSearchableAttributes"
                   [] result = "none" -> "queueFindMany"
                   [] OTHER -> "threw"
    /\ UNCHANGED << inputs, processorVars, watermark, lastUpdatedAt, offset, tagTasks, queuedItems, tags,
                    setupTasks, engineTasks, fetchLog >>

\* An attribute update of the index: the engine accepts it as a task, or the call throws.
UpdateAttributes(at, next, op) ==
    /\ pc = at
    /\ calls' = Append(calls, op)
    /\ \/ /\ engineTasks' = Append(engineTasks, EnqueuedTask("settingsUpdate", <<>>))
          /\ setupTasks' = Append(setupTasks, Len(engineTasks) + 1)
          /\ pc' = next
       \/ /\ pc' = "threw"
          /\ UNCHANGED << engineTasks, setupTasks >>
    /\ UNCHANGED << inputs, processorVars, watermark, lastUpdatedAt, offset, tagTasks, queuedItems, tags,
                    index, fetchLog >>

\* await index.updateSearchableAttributes(['name'])
UpdateSearchableAttributes ==
    UpdateAttributes("updateSearchableAttributes", "updateSortableAttributes",
                     "updateSearchableAttributes")

\* await index.updateSortableAttributes([...])
UpdateSortableAttributes ==
    UpdateAttributes("updateSortableAttributes", "setupWaitForTasks",
                     "updateSortableAttributes")

\* client.waitForTasks(uids): resolves with the tasks once none of them is
\* enqueued any more, whatever their final status; throws when it gives up
\* waiting or cannot reach the engine. The callers discard the resolved value.
WaitForTasks(at, next, uids) ==
    /\ pc = at
    /\ calls' = Append(calls, "waitForTasks")
    /\ \/ /\ AllFinished(uids)
          /\ pc' = next
       \/ pc' = "threw"
    /\ UNCHANGED << inputs, processorVars, watermark, lastUpdatedAt, offset, tagTasks, queuedItems, tags,
                    setupTasks, index, engineTasks, fetchLog >>

\* onIndexSetup going on without the confirmation of its two tasks.
SetupDoesNotWait ==
    /\ pc = "setupWaitForTasks"
    /\ pc' = "queueFindMany"
    /\ UNCHANGED << inputs, processorVars, watermark, lastUpdatedAt, offset, tagTasks, queuedItems, tags,
                    setupTasks, index, engineTasks, fetchLog, calls >>

\* await client.waitForTasks([the two attribute tasks]); onIndexSetup returns.
SetupWaitForTasks == WaitForTasks("setupWaitForTasks", "queueFindMany", setupTasks)

\* ----------------------------------------------------------- onIndexUpdate

\* while (offset < READ_BATCH_SIZE): where the run goes at offset off.
While(off) == IF off < READ_BATCH_SIZE THEN "tagFindMany" ELSE "waitForTasks"

\* let offset = 0; const tagTasks = []; const queuedItems = await db...findMany(...);
\* then the first test of the loop.
QueueFindMany ==
    /\ pc = "queueFindMany"
    /\ calls' = Append(calls, "searchIndexUpdateQueue.findMany")
    /\ offset' = 0
    /\ tagTasks' = <<>>
    /\ \/ /\ queuedItems' = FindManyQueue
          /\ pc' = While(0)
       \/ /\ pc' = "threw"
          /\ UNCHANGED queuedItems
    /\ UNCHANGED << inputs, processorVars, watermark, lastUpdatedAt, tags, setupTasks, index, engineTasks,
                    fetchLog >>

\* A fetch whose error is caught and ends the loop.
TagFindManyCatchesError ==
    /\ pc = "tagFindMany"
    /\ calls' = Append(calls, "tag.findMany")
    /\ \/ \E ord \in Orders :
            LET page == FindManyTags(offset, READ_BATCH_SIZE, lastUpdatedAt, queuedItems, ord)
            IN  /\ tags' = page
                /\ fetchLog' = Append(fetchLog,
                        [skip |-> offset, take |-> READ_BATCH_SIZE, length |-> Len(page),
                         ids |-> PageOfIds(offset, READ_BATCH_SIZE, lastUpdatedAt,
                                           queuedItems, ord)])
                /\ pc' = IF Len(page) = 0 THEN "waitForTasks" ELSE "updateDocuments"
       \/ /\ pc' = "waitForTasks"
          /\ UNCHANGED << tags, fetchLog >>
    /\ UNCHANGED << inputs, processorVars, watermark, lastUpdatedAt, offset, tagTasks, queuedItems,
                    setupTasks, index, engineTasks >>

\* A fetch that reads the pending queue again for its selection.
TagFindManyReadsQueue ==
    /\ pc = "tagFindMany"
    /\ calls' = Append(calls, "tag.findMany")
    /\ \/ \E ord \in Orders :
            LET page == FindManyTags(offset, READ_BATCH_SIZE, lastUpdatedAt, FindManyQueue, ord)
            IN  /\ tags' = page
                /\ fetchLog' = Append(fetchLog,
                        [skip |-> offset, take |-> READ_BATCH_SIZE, length |-> Len(page),
                         ids |-> PageOfIds(offset, READ_BATCH_SIZE, lastUpdatedAt,
                                           FindManyQueue, ord)])
                /\ pc' = IF Len(page) = 0 THEN "waitForTasks" ELSE "updateDocuments"
       \/ /\ pc' = "threw"
          /\ UNCHANGED << tags, fetchLog >>
    /\ UNCHANGED << inputs, processorVars, watermark, lastUpdatedAt, offset, tagTasks, queuedItems,
                    setupTasks, index, engineTasks >>

\* const tags = await db.tag.findMany({skip: offset, take: READ_BATCH_SIZE, ...});
\* if (tags.length === 0) break;
TagFindMany ==
    /\ pc = "tagFindMany"
    /\ calls' = Append(calls, "tag.findMany")
    /\ \/ \E ord \in Orders :
            LET page == FindManyTags(offset, READ_BATCH_SIZE, lastUpdatedAt, queuedItems, ord)
            IN  /\ tags' = page
                /\ fetchLog' = Append(fetchLog,
                        [skip |-> offset, take |-> READ_BATCH_SIZE, length |-> Len(page),
                         ids |-> PageOfIds(offset, READ_BATCH_SIZE, lastUpdatedAt,
                                           queuedItems, ord)])
                /\ pc' = IF Len(page) = 0 THEN "waitForTasks" ELSE "updateDocuments"
       \/ /\ pc' = "threw"
          /\ UNCHANGED << tags, fetchLog >>
    /\ UNCHANGED << inputs, processorVars, watermark, lastUpdatedAt, offset, tagTasks, queuedItems,
                    setupTasks, index, engineTasks >>

\* updateDocuments followed by offset += READ_BATCH_SIZE.
UpdateDocumentsAddsPageSize ==
    /\ pc = "updateDocuments"
    /\ calls' = Append(calls, "updateDocuments")
    /\ \/ /\ engineTasks' = Append(engineTasks,
                EnqueuedTask("documentAdditionOrUpdate", IndexReadyRecords(tags)))
          /\ tagTasks' = Append(tagTasks, Len(engineTasks) + 1)
          /\ offset' = offset + READ_BATCH_SIZE
          /\ pc' = While(offset + READ_BATCH_SIZE)
       \/ /\ pc' = "threw"
          /\ UNCHANGED << engineTasks, tagTasks, offset >>
    /\ tags' = <<>>
    /\ UNCHANGED << inputs, processorVars, watermark, lastUpdatedAt, queuedItems, setupTasks,
                    index, fetchLog >>

\* updateDocuments whose task is not pushed to tagTasks.
UpdateDocumentsForgetsTask ==
    /\ pc = "updateDocuments"
    /\ calls' = Append(calls, "updateDocuments")
    /\ \/ /\ engineTasks' = Append(engineTasks,
                EnqueuedTask("documentAdditionOrUpdate", IndexReadyRecords(tags)))
          /\ offset' = offset + Len(tags)
          /\ pc' = While(offset + Len(tags))
       \/ /\ pc' = "threw"
          /\ UNCHANGED << engineTasks, offset >>
    /\ tags' = <<>>
    /\ UNCHANGED << inputs, processorVars, watermark, lastUpdatedAt, tagTasks, queuedItems,
                    setupTasks, index, fetchLog >>

\* tagTasks.push(await client.index(INDEX_NAME).updateDocuments(indexReadyRecords));
\* offset += tags.length; the iteration ends, and `tags` with it, at the next
\* test of the loop.
UpdateDocuments ==
    /\ pc = "updateDocuments"
    /\ calls' = Append(calls, "updateDocuments")
    /\ \/ /\ engineTasks' = Append(engineTasks,
                EnqueuedTask("documentAdditionOrUpdate", IndexReadyRecords(tags)))
          /\ tagTasks' = Append(tagTasks, Len(engineTasks) + 1)
          /\ offset' = offset + Len(tags)
          /\ pc' = While(offset + Len(tags))
       \/ /\ pc' = "threw"
          /\ UNCHANGED << engineTasks, tagTasks, offset >>
    /\ tags' = <<>>
    /\ UNCHANGED << inputs, processorVars, watermark, lastUpdatedAt, queuedItems, setupTasks, index,
                    fetchLog >>

\* await client.waitForTasks(tagTasks.map((task) => task.taskUid)); then return.
UpdateWaitForTasks == WaitForTasks("waitForTasks", "returned", tagTasks)

\* --------------------------------------------------------------- processor

RunEvent(event) ==
    [event |-> event, lastUpdatedAt |-> lastUpdatedAt, tagTasks |-> tagTasks, calls |-> calls]

\* A trigger that starts a run whether or not a run holds the lock.
ProcessorStartWithoutLock ==
    /\ runsLeft > 0
    /\ lock' = TRUE
    /\ runsLeft' = runsLeft - 1
    /\ runLog' = Append(runLog, [event |-> "start", lastUpdatedAt |-> watermark,
                                 tagTasks |-> <<>>, calls |-> <<>>])
    /\ lastUpdatedAt' = watermark
    /\ pc' = "onIndexUpdate"
    /\ offset' = 0
    /\ tagTasks' = <<>>
    /\ queuedItems' = <<>>
    /\ tags' = <<>>
    /\ setupTasks' = <<>>
    /\ fetchLog' = <<>>
    /\ calls' = <<>>
    /\ UNCHANGED << inputs, watermark, index, engineTasks >>

\* createSearchIndexUpdateProcessor({indexName, onIndexUpdate}): a trigger starts
\* a run only when no run holds the lock of the index; the run takes the lock,
\* reads the watermark of the index and calls onIndexUpdate with it. The call
\* has its own locals.
ProcessorStart ==
    /\ runsLeft > 0
    /\ ~lock
    /\ lock' = TRUE
    /\ runsLeft' = runsLeft - 1
    /\ runLog' = Append(runLog, [event |-> "start", lastUpdatedAt |-> watermark,
                                 tagTasks |-> <<>>, calls |-> <<>>])
    /\ lastUpdatedAt' = watermark
    /\ pc' = "onIndexUpdate"
    /\ offset' = 0
    /\ tagTasks' = <<>>
    /\ queuedItems' = <<>>
    /\ tags' = <<>>
    /\ setupTasks' = <<>>
    /\ fetchLog' = <<>>
    /\ calls' = <<>>
    /\ UNCHANGED << inputs, watermark, index, engineTasks >>

\* onIndexUpdate returned: the watermark advances to the start time of the run
\* and the run gives the lock back.
ProcessorCommit ==
    /\ pc = "returned"
    /\ watermark' = <<RunStart>>
    /\ pc' = "committed"
    /\ lock' = FALSE
    /\ runLog' = Append(runLog, RunEvent("committed"))
    /\ UNCHANGED << inputs, runsLeft, lastUpdatedAt, offset, tagTasks, queuedItems, tags,
                    setupTasks, index, engineTasks, fetchLog, calls >>

\* onIndexUpdate threw: the run has failed, the watermark is left alone and the
\* run gives the lock back.
ProcessorFail ==
    /\ pc = "threw"
    /\ pc' = "failed"
    /\ lock' = FALSE
    /\ runLog' = Append(runLog, RunEvent("failed"))
    /\ UNCHANGED << inputs, runsLeft, watermark, lastUpdatedAt, offset, tagTasks, queuedItems,
                    tags, setupTasks, index, engineTasks, fetchLog, calls >>

\* ----------------------------------------------------------------- writers

\* What a writer of the store leaves alone: everything but the two tables.
notStore ==
    << client, watermark, processorVars, lastUpdatedAt, pc, offset, tagTasks, queuedItems,
       tags, setupTasks, index, engineTasks, fetchLog, calls, notificationVars,
       autocompleteVars >>

\* The run reads the two tables in its findMany calls only: what other requests
\* have written to a table is what they have written when the run is about to
\* read it.
AboutToFetch == lock /\ pc = "tagFindMany"

AboutToRead == lock /\ pc \in {"queueFindMany", "tagFindMany"}

\* Another request creates a tag while the run is in progress.
TagCreate ==
    /\ AboutToFetch
    /\ newTags < MaxNew
    /\ newTags' = newTags + 1
    /\ UNCHANGED << notStore, freeTag, ordinaryTags, searchIndexUpdateQueue >>

\* Another request queues tag 1 for an index while the run is in progress.
Enqueue ==
    /\ AboutToRead
    /\ Len(searchIndexUpdateQueue) < MaxEnqueue
    /\ \E row \in QueueRows :
            searchIndexUpdateQueue' = Append(searchIndexUpdateQueue, row)
    /\ UNCHANGED << notStore, freeTag, ordinaryTags, newTags >>

\* ----------------------------------------------------------- specification

\* No run of the index has started.
NoRun ==
    /\ lock = FALSE
    /\ runLog = <<>>
    /\ lastUpdatedAt = <<>>
    /\ pc = "idle"
    /\ offset = 0
    /\ tagTasks = <<>>
    /\ queuedItems = <<>>
    /\ tags = <<>>
    /\ setupTasks = <<>>
    /\ index = FALSE
    /\ engineTasks = <<>>
    /\ fetchLog = <<>>
    /\ calls = <<>>
    /\ newTags = 0

\* The module utils.notifications is left out: it has no processor.
NoNotifications ==
    /\ notificationProcessors = <<>>
    /\ notifications = <<>>
    /\ notificationBatches = <<>>
    /\ currentBatch = 0
    /\ npc = "done"

\* The component AutocompleteSearch is left out: it is not on the server.
NoAutocomplete ==
    /\ requests = <<>>
    /\ response = <<>>
    /\ backendCalls = <<>>
    /\ spc = "resolved"
    /\ results = <<>>
    /\ hiddenIds = {}
    /\ items = <<>>
    /\ indexName = "models"
    /\ search = <<>>
    /\ debouncedSearch = <<>>
    /\ query = <<>>
    /\ selectedItem = <<>>
    /\ status = "idle"
    /\ filters = <<>>
    /\ searchPageQuery = <<>>
    /\ route = <<>>
    /\ refineDeps = <<>>
    /\ clearDeps = <<>>
    /\ edits = 0
    /\ clicks = 0
    /\ editedSincePick = FALSE

\* One run over a store that no one else writes.
Init ==
    /\ client \in BOOLEAN
    /\ freeTag \in Optional(FreeColumns)
    /\ ordinaryTags \in OrdinaryCounts
    /\ searchIndexUpdateQueue \in DistinctQueues
    /\ watermark \in Optional(Times)
    /\ runsLeft = 1
    /\ NoRun
    /\ NoNotifications
    /\ NoAutocomplete

Next ==
    \/ ProcessorStart
    \/ OnIndexUpdateEntry
    \/ OnIndexSetupEntry
    \/ GetOrCreateIndex
    \/ UpdateSearchableAttributes
    \/ UpdateSortableAttributes
    \/ SetupWaitForTasks
    \/ QueueFindMany
    \/ TagFindMany
    \/ UpdateDocuments
    \/ UpdateWaitForTasks
    \/ EngineProcess
    \/ ProcessorCommit
    \/ ProcessorFail

Spec == Init /\ [][Next]_vars

\* The free tags that are listed, not admin-only and have an AllTime row.
ListedColumns ==
    {r \in FreeColumns : ~r.unlisted /\ ~r.adminOnly /\ Len(r.metrics) = 2}

\* MaxRuns triggers, one run after the other, over a store that no one else writes.
InitRuns ==
    /\ client = TRUE
    /\ freeTag \in Optional(ListedColumns)
    /\ ordinaryTags \in {0, READ_BATCH_SIZE + MaxOver}
    /\ searchIndexUpdateQueue \in {q \in DistinctQueues : \A k \in 1..Len(q) : q[k].type = INDEX_NAME}
    /\ watermark \in Optional(Times)
    /\ runsLeft = MaxRuns
    /\ NoRun
    /\ NoNotifications
    /\ NoAutocomplete

SpecRuns == InitRuns /\ [][Next]_vars

\* One run, a full one or one with the latest watermark, over a small store
\* that other requests write while it is in progress.
InitWriters ==
    /\ client = TRUE
    /\ freeTag \in Optional(ListedColumns)
    /\ ordinaryTags = 0
    /\ searchIndexUpdateQueue = <<>>
    /\ watermark \in {<<>>, <<MaxTime>>}
    /\ runsLeft = 1
    /\ NoRun
    /\ NoNotifications
    /\ NoAutocomplete

NextWriters ==
    \/ Next
    \/ TagCreate
    \/ Enqueue

SpecWriters == InitWriters /\ [][NextWriters]_vars

\* One full run (no watermark) over a small store that grows while the run is
\* in progress.
InitLoop ==
    /\ client = TRUE
    /\ freeTag \in Optional(ListedColumns)
    /\ ordinaryTags = 0
    /\ searchIndexUpdateQueue = <<>>
    /\ watermark = <<>>
    /\ runsLeft = 1
    /\ NoRun
    /\ NoNotifications
    /\ NoAutocomplete

NextLoop ==
    \/ Next
    \/ TagCreate

\* MaxRuns triggers and full runs over a store of MaxSmall tags that no one
\* else writes.
InitLock ==
    /\ client = TRUE
    /\ freeTag = <<>>
    /\ ordinaryTags = MaxSmall
    /\ searchIndexUpdateQueue = <<>>
    /\ watermark = <<>>
    /\ runsLeft = MaxRuns
    /\ NoRun
    /\ NoNotifications
    /\ NoAutocomplete

SpecLock == InitLock /\ [][Next]_vars

\* One run over a store that no one else writes, with a pending queue that may
\* hold a row several times.
InitQueue ==
    /\ client = TRUE
    /\ freeTag \in Optional(ListedColumns)
    /\ ordinaryTags \in OrdinaryCounts
    /\ searchIndexUpdateQueue \in RepeatingQueues
    /\ watermark \in Optional(Times)
    /\ runsLeft = 1
    /\ NoRun
    /\ NoNotifications
    /\ NoAutocomplete

SpecQueue == InitQueue /\ [][Next]_vars

\* An awaited call settles, and the function goes on when it has: the fetch and
\* the submission of the loop are taken when they can be.
FairLoop ==
    InitLoop /\ [][NextLoop]_vars /\ WF_vars(TagFindMany) /\ WF_vars(UpdateDocuments)

\* ------------------------------------------------------------------ claims

\* The ids of the documents handed to updateDocuments so far.
Submitted ==
    UNION {{engineTasks[u].docs[k].id : k \in 1..Len(engineTasks[u].docs)} :
            u \in 1..Len(engineTasks)}

Called(op) == \E k \in 1..Len(calls) : calls[k] = op

\* onIndexSetup has gone through and the engine has applied both attribute updates.
SetupSucceeded ==
    /\ index
    /\ Len(setupTasks) = 2
    /\ \A k \in 1..Len(setupTasks) : engineTasks[setupTasks[k]].status = "succeeded"

\* onIndexUpdate has returned normally from a run that had a client and a
\* successful setup.
Completed == client /\ SetupSucceeded /\ pc \in {"returned", "committed"}

\* The loop of onIndexUpdate has ended without an error, after a successful setup.
LoopEnded == client /\ SetupSucceeded /\ pc \in {"waitForTasks", "returned", "committed"}

\* The state right after db.tag.findMany has answered: `tags` is its page.
JustFetched ==
    \/ pc = "updateDocuments"
    \/ pc = "waitForTasks" /\ fetchLog # <<>> /\ fetchLog[Len(fetchLog)].length = 0

PageIds == {tags[k].id : k \in 1..Len(tags)}

Listed(t) == ~t.unlisted /\ ~t.adminOnly

QueuedForTags(id) ==
    \E k \in 1..Len(searchIndexUpdateQueue) :
        searchIndexUpdateQueue[k] = [type |-> INDEX_NAME, id |-> id]

\* C1: after a run that completed, every listed, non-admin tag updated after
\* the pre-run watermark and before the start of the run has been submitted.
C1_NoSilentDataLoss ==
    (Completed /\ lastUpdatedAt # <<>>) =>
        LET rows == tag
        IN  \A i \in 1..Len(rows) :
                (/\ Listed(rows[i])
                 /\ rows[i].updatedAt > lastUpdatedAt[1]
                 /\ rows[i].updatedAt < RunStart) => i \in Submitted

\* C2: when the engine reports a task of the run as failed, onIndexUpdate does
\* not return normally and the watermark keeps its pre-run value.
C2_TaskFailureFailsRun ==
    (SetupSucceeded /\ \E k \in 1..Len(tagTasks) : engineTasks[tagTasks[k]].status = "failed") =>
        /\ pc \notin {"returned", "committed"}
        /\ watermark = lastUpdatedAt

\* The tags the three-way disjunction names, for the watermark wm.
ThreeWay(rows, wm) ==
    {i \in 1..Len(rows) :
        rows[i].createdAt > wm \/ rows[i].updatedAt > wm \/ QueuedForTags(i)}

\* The page is drawn from the set sel and is all of it when it is a short first page.
PageOf(sel) ==
    LET last == fetchLog[Len(fetchLog)]
    IN  /\ PageIds \subseteq sel
        /\ (last.skip = 0 /\ last.length < last.take) => PageIds = sel

\* C3 as stated: with a watermark, the query selects exactly the tags of the
\* three-way disjunction, whatever their other columns.
C3_EligibilityThreeWayOnly ==
    (JustFetched /\ lastUpdatedAt # <<>>) => PageOf(ThreeWay(tag, lastUpdatedAt[1]))

\* C3 amended: with a watermark, the query selects exactly the tags that are
\* listed, not admin-only and named by the three-way disjunction.
C3_EligibilityListedThreeWay ==
    (JustFetched /\ lastUpdatedAt # <<>>) =>
        LET rows == tag
        IN  PageOf({i \in ThreeWay(rows, lastUpdatedAt[1]) : Listed(rows[i])})

\* C3 witness: a short first page that holds tag 1 only because it is queued.
C3_Witness ==
    /\ pc = "updateDocuments"
    /\ lastUpdatedAt # <<>>
    /\ Len(tags) < READ_BATCH_SIZE
    /\ freeTag # <<>>
    /\ freeTag[1].createdAt <= lastUpdatedAt[1]
    /\ freeTag[1].updatedAt <= lastUpdatedAt[1]
    /\ 1 \in PageIds

\* C4: without a watermark, a run that completed has submitted every listed,
\* non-admin tag of the store.
C4_FullBackfill ==
    (Completed /\ lastUpdatedAt = <<>>) =>
        LET rows == tag
        IN  \A i \in 1..Len(rows) : Listed(rows[i]) => i \in Submitted

\* C5: a listed, non-admin tag that is queued for 'tags' when the run starts
\* has been submitted when the run has completed, whatever its timestamps.
C5_QueueInclusion ==
    Completed =>
        LET rows == tag
        IN  \A i \in 1..Len(rows) : (Listed(rows[i]) /\ QueuedForTags(i)) => i \in Submitted

\* The tags the query of the run matches.
EligibleIds ==
    LET rows == tag
    IN  {i \in 1..Len(rows) :
            /\ Listed(rows[i])
            /\ lastUpdatedAt # <<>> => i \in ThreeWay(rows, lastUpdatedAt[1])}

\* C6: with N eligible tags and page size P the loop issues pages of P, ..., P
\* and N mod P records, and no fetch after that first short page.
C6_StopsAfterShortPage ==
    LoopEnded =>
        LET n == Cardinality(EligibleIds)
            full == n \div READ_BATCH_SIZE
        IN  /\ Len(fetchLog) = full + 1
            /\ \A k \in 1..Len(fetchLog) :
                    fetchLog[k].length =
                        IF k <= full THEN READ_BATCH_SIZE ELSE n % READ_BATCH_SIZE

\* C7: the loop ends only on an empty page: when it has ended, its last fetch
\* returned no record (a full page is always followed by another fetch).
C7_EndsOnlyOnEmptyPage ==
    LoopEnded => (fetchLog # <<>> /\ fetchLog[Len(fetchLog)].length = 0)

DataCalls == {"searchIndexUpdateQueue.findMany", "tag.findMany", "updateDocuments"}

SetupFailed ==
    \/ /\ pc \in {"threw", "failed"}
       /\ Called("getOrCreateIndex")
       /\ ~Called("searchIndexUpdateQueue.findMany")
    \/ \E k \in 1..Len(setupTasks) : engineTasks[setupTasks[k]].status = "failed"

\* C9: when schema setup fails, the run fetches nothing, submits nothing, does
\* not return normally and leaves the watermark as it was.
C9_SetupFailureStopsRun ==
    SetupFailed =>
        /\ ~Called("tag.findMany")
        /\ ~Called("updateDocuments")
        /\ pc \notin {"returned", "committed"}
        /\ watermark = lastUpdatedAt

\* C10 as stated: every submitted document has the six metric fields, with or
\* without an AllTime row.
C10_MetricFieldsAlways ==
    \A u \in 1..Len(engineTasks) : \A k \in 1..Len(engineTasks[u].docs) :
        DOMAIN engineTasks[u].docs[k].metrics = MetricFields

\* C10 amended: every submitted document has the fields id, name, nsfw,
\* isCategory and metrics; metrics holds the six counters of the tag's AllTime
\* row when there is one and is the empty object when there is none.
C10_DocumentFields ==
    LET rows == tag
    IN  \A u \in 1..Len(engineTasks) : \A k \in 1..Len(engineTasks[u].docs) :
            LET d == engineTasks[u].docs[k]
                allTime == SelectSeq(rows[d.id].metrics, LAMBDA m : m.timeframe = AllTime)
            IN  /\ DOMAIN d = TagFields \cup {"metrics"}
                /\ IF allTime # <<>>
                   THEN /\ DOMAIN d.metrics = MetricFields
                        /\ \A f \in MetricFields : d.metrics[f] = allTime[1][f]
                   ELSE DOMAIN d.metrics = {}

\* C10 witness: one batch holds a document of a tag without an AllTime row and
\* a document of a tag with one.
C10_Witness ==
    \E u \in 1..Len(engineTasks) :
        /\ \E k \in 1..Len(engineTasks[u].docs) : DOMAIN engineTasks[u].docs[k].metrics = {}
        /\ \E k \in 1..Len(engineTasks[u].docs) :
                DOMAIN engineTasks[u].docs[k].metrics = MetricFields

\* ------------------------------------------------------ utils.notifications

\* What the module utils.notifications leaves alone: the tags index and its
\* run, and the component AutocompleteSearch.
tagsVars ==
    << client, freeTag, ordinaryTags, newTags, searchIndexUpdateQueue, watermark, processorVars,
       lastUpdatedAt, pc, offset, tagTasks, queuedItems, tags, setupTasks, index, engineTasks,
       fetchLog, calls, autocompleteVars >>

\* The objects notificationProcessors may be: n entries in insertion order,
\* entry k with the key k and with a priority or without one.
ProcessorEntries ==
    UNION {{[k \in 1..n |-> [key |-> k, priority |-> ps[k]]] :
                ps \in [1..n -> Optional(0..MaxPriority)]} : n \in 0..MaxProcessors}

\* priority ?? 0
OrZero(priority) == IF priority = <<>> THEN 0 ELSE priority[1]

\* One step of the stable sort: v goes behind the entries that do not compare
\* greater than it.
RECURSIVE InsertSorted(_, _)
InsertSorted(sorted, v) ==
    IF sorted = <<>> THEN <<v>>
    ELSE IF OrZero(sorted[Len(sorted)].priority) - OrZero(v.priority) <= 0
         THEN Append(sorted, v)
         ELSE Append(InsertSorted(SubSeq(sorted, 1, Len(sorted) - 1), v), sorted[Len(sorted)])

\* entries.sort((a, b) => (a.priority ?? 0) - (b.priority ?? 0)): Array.prototype.sort
\* is stable.
RECURSIVE SortByPriority(_)
SortByPriority(entries) ==
    IF entries = <<>> THEN <<>>
    ELSE InsertSorted(SortByPriority(SubSeq(entries, 1, Len(entries) - 1)),
                      entries[Len(entries)])

RECURSIVE SumOfLengths(_)
SumOfLengths(batches) ==
    IF batches = <<>> THEN 0
    ELSE Len(batches[1]) + SumOfLengths(SubSeq(batches, 2, Len(batches)))

\* The number of notifications the for loop has gone through.
Pushed == SumOfLengths(notificationBatches)

\* currentBatch[0]?.priority: undefined when the batch is empty and when its
\* first entry has no priority.
FirstPriority(batch) == IF batch = <<>> THEN <<>> ELSE batch[1].priority

\* Lines 39-46: notifications, notificationBatches = [[]] and currentBatch, which
\* is the first batch.
SortNotifications ==
    /\ npc = "sort"
    /\ notifications' = SortByPriority(notificationProcessors)
    /\ notificationBatches' = << <<>> >>
    /\ currentBatch' = 1
    /\ npc' = "for"
    /\ UNCHANGED << tagsVars, notificationProcessors >>

\* Lines 47-54, one iteration of the for loop: a new batch when the priority of
\* the notification, with 0 for a missing one, is not the priority of the first
\* entry of the current batch, taken as it is.
ForNotification ==
    /\ npc = "for"
    /\ Pushed < Len(notifications)
    /\ LET notification == notifications[Pushed + 1]
           priority == OrZero(notification.priority)
       IN  IF <<priority>> # FirstPriority(notificationBatches[currentBatch])
           THEN /\ notificationBatches' = Append(notificationBatches, <<notification>>)
                /\ currentBatch' = Len(notificationBatches) + 1
           ELSE /\ notificationBatches' =
                        [notificationBatches EXCEPT ![currentBatch] = Append(@, notification)]
                /\ UNCHANGED currentBatch
    /\ UNCHANGED << tagsVars, notificationProcessors, notifications, npc >>

\* The for loop has gone through the notifications: export { notificationBatches }.
ExportBatches ==
    /\ npc = "for"
    /\ Pushed = Len(notifications)
    /\ npc' = "done"
    /\ UNCHANGED << tagsVars, notificationProcessors, notifications, notificationBatches,
                    currentBatch >>

\* The module utils.notifications is about to be evaluated; no tags index.
InitBatches ==
    /\ notificationProcessors \in ProcessorEntries
    /\ notifications = <<>>
    /\ notificationBatches = <<>>
    /\ currentBatch = 0
    /\ npc = "sort"
    /\ client = FALSE
    /\ freeTag = <<>>
    /\ ordinaryTags = 0
    /\ searchIndexUpdateQueue = <<>>
    /\ watermark = <<>>
    /\ runsLeft = 0
    /\ NoRun
    /\ NoAutocomplete

NextBatches ==
    \/ SortNotifications
    \/ ForNotification
    \/ ExportBatches

SpecBatches == InitBatches /\ [][NextBatches]_vars

\* --------------------------------------------------------------- C11..C20

\* The documents of the tasks uids.
DocsOf(uids) ==
    UNION {{engineTasks[uids[k]].docs[j] : j \in 1..Len(engineTasks[uids[k]].docs)} :
            k \in 1..Len(uids)}

\* The calls cs are those of a run whose loop has ended: the last of them is
\* the final waitForTasks.
LoopEndedIn(cs) ==
    /\ \E k \in 1..Len(cs) : cs[k] = "searchIndexUpdateQueue.findMany"
    /\ cs[Len(cs)] = "waitForTasks"

\* C11: when the loop of a run has ended and an earlier run with the same
\* watermark input, the same queue and the same store had ended its loop too,
\* both runs have submitted the same set of documents.
C11_SameDocumentsTwice ==
    (pc \in {"waitForTasks", "returned", "committed"} /\ Called("searchIndexUpdateQueue.findMany")) =>
        \A e \in 1..Len(runLog) :
            (/\ runLog[e].event # "start"
             /\ runLog[e].lastUpdatedAt = lastUpdatedAt
             /\ LoopEndedIn(runLog[e].calls)) =>
                DocsOf(runLog[e].tagTasks) = DocsOf(tagTasks)

\* The fetches of the run that returned a record.
NonEmptyPages == SelectSeq(fetchLog, LAMBDA f : f.length > 0)

\* The position of the queue read in the calls of the run, 0 before it.
QueueReadAt ==
    IF Called("searchIndexUpdateQueue.findMany")
    THEN CHOOSE k \in 1..Len(calls) : calls[k] = "searchIndexUpdateQueue.findMany"
    ELSE 0

\* The tasks of the engine that carry documents.
DocumentTasks == {u \in 1..Len(engineTasks) : engineTasks[u].type = "documentAdditionOrUpdate"}

\* C12: every updateDocuments call follows a fetch at once, the k-th batch of
\* the run carries the records of its k-th non-empty page, no waitForTasks is
\* called between the queue read and the end of the loop, and when
\* onIndexUpdate has returned every batch of the run was waited for.
C12_OneWritePerPageOneWait ==
    LET pages == NonEmptyPages
    IN  /\ \A k \in 1..Len(calls) :
                calls[k] = "updateDocuments" => (k > 1 /\ calls[k - 1] = "tag.findMany")
        /\ Len(tagTasks) <= Len(pages)
        /\ Len(pages) <= Len(tagTasks) + 1
        /\ pc \in {"tagFindMany", "waitForTasks", "returned", "committed"} =>
                Len(tagTasks) = Len(pages)
        /\ \A k \in 1..Len(tagTasks) :
                LET docs == engineTasks[tagTasks[k]].docs
                IN  [j \in 1..Len(docs) |-> docs[j].id] = pages[k].ids
        /\ \A k \in 1..Len(calls) :
                (k > QueueReadAt /\ QueueReadAt > 0 /\ calls[k] = "waitForTasks") =>
                    (k = Len(calls) /\ pc \notin {"tagFindMany", "updateDocuments"})
        /\ pc \in {"returned", "committed"} /\ client =>
                /\ calls[Len(calls)] = "waitForTasks"
                /\ \A u \in DocumentTasks : Finished(u) /\ In(u, tagTasks)

\* C12 witness: onIndexUpdate has returned from a run of two non-empty pages.
C12_Witness ==
    /\ pc = "returned"
    /\ Len(NonEmptyPages) = 2
    /\ Len(tagTasks) = 2

\* One iteration of the loop has submitted its page and gone on.
IterationDone == pc = "updateDocuments" /\ pc' \in {"tagFindMany", "waitForTasks"}

\* A fetch has returned an empty page.
EmptyPageFetched ==
    /\ pc = "tagFindMany"
    /\ Len(fetchLog') = Len(fetchLog) + 1
    /\ fetchLog'[Len(fetchLog')].length = 0

\* C13: an iteration that submits its page adds the number of records of that
\* page, at least 1, to offset; an empty page ends the loop; the number of
\* fetches is at most offset + 1; and a run that is about to fetch leaves the
\* loop: it reaches the final waitForTasks, or a call throws.
C13_LoopTerminates ==
    /\ [][IterationDone =>
            /\ fetchLog[Len(fetchLog)].length >= 1
            /\ offset' = offset + fetchLog[Len(fetchLog)].length]_vars
    /\ [][EmptyPageFetched => pc' = "waitForTasks"]_vars
    /\ [](Len(fetchLog) <= offset + 1)
    /\ (pc = "tagFindMany") ~> (pc \in {"waitForTasks", "threw"})

\* C13 witness: the loop has ended on an empty page after two pages of one
\* record each, with offset 2.
C13_Witness ==
    /\ pc = "waitForTasks"
    /\ Len(fetchLog) = 3
    /\ fetchLog[1].length = 1
    /\ fetchLog[2].length = 1
    /\ fetchLog[3].length = 0
    /\ offset = 2

\* The number of times the tag id is in the documents of the batches of the run.
TimesSubmitted(id) ==
    Cardinality({<<k, j>> \in (1..Len(tagTasks)) \X (1..READ_BATCH_SIZE) :
                    /\ j <= Len(engineTasks[tagTasks[k]].docs)
                    /\ engineTasks[tagTasks[k]].docs[j].id = id})

\* The number of rows of the pending queue that name the tag id for 'tags'.
TimesQueued(id) ==
    Cardinality({k \in 1..Len(searchIndexUpdateQueue) :
                    searchIndexUpdateQueue[k] = [type |-> INDEX_NAME, id |-> id]})

RunsInProgress ==
    Cardinality({e \in 1..Len(runLog) : runLog[e].event = "start"})
        - Cardinality({e \in 1..Len(runLog) : runLog[e].event # "start"})

\* C15: at most one run of the index is between its start and its end, and the
\* lock is held exactly while one is; a run reads the watermark only at its
\* start, and every call of the log is made while the lock is held.
C15_RunsDoNotOverlap ==
    /\ [](RunsInProgress <= 1)
    /\ [](lock <=> RunsInProgress = 1)
    /\ [][calls' # calls => (lock \/ lock')]_vars

\* C15 witness: a second run is in progress, after the first run has ended.
C15_Witness ==
    /\ Len(runLog) = 3
    /\ runLog[3].event = "start"
    /\ Called("tag.findMany")

\* The number of calls op in the calls of the run.
TimesCalled(op) == Cardinality({k \in 1..Len(calls) : calls[k] = op})

\* The tag t is eligible by its timestamps for the watermark of the run.
EligibleByTime(t) ==
    lastUpdatedAt = <<>> \/ t.createdAt > lastUpdatedAt[1] \/ t.updatedAt > lastUpdatedAt[1]

\* C16: the run reads the queue at most once, before its first fetch;
\* queuedItems is written by that read only (and emptied when a run starts);
\* and every page of the run holds only tags that are eligible by their
\* timestamps or named by queuedItems, the ids that read has returned.
C16_QueueReadOncePerRun ==
    /\ [](TimesCalled("searchIndexUpdateQueue.findMany") <= 1)
    /\ [](Called("tag.findMany") =>
            /\ QueueReadAt > 0
            /\ \A k \in 1..Len(calls) : calls[k] = "tag.findMany" => k > QueueReadAt)
    /\ [][queuedItems' # queuedItems =>
            \/ /\ pc = "queueFindMany"
               /\ queuedItems' = FindManyQueue
            \/ /\ pc' = "onIndexUpdate"
               /\ queuedItems' = <<>>]_vars
    /\ [](LET rows == tag
          IN  \A f \in 1..Len(fetchLog) : \A j \in 1..Len(fetchLog[f].ids) :
                LET id == fetchLog[f].ids[j]
                IN  EligibleByTime(rows[id]) \/ In(id, queuedItems))

\* C16 witness: a first page was fetched while tag 1, listed and not eligible by
\* its timestamps, was queued for 'tags' by a request that came after the queue
\* read of the run; the page does not hold tag 1.
C16_Witness ==
    /\ JustFetched
    /\ Len(fetchLog) = 1
    /\ freeTag # <<>>
    /\ ~EligibleByTime(tag[1])
    /\ QueuedForTags(1)
    /\ ~In(1, queuedItems)
    /\ 1 \notin PageIds

\* The number of times the tag id was returned by the fetches of the run.
TimesFetched(id) ==
    Cardinality({<<f, j>> \in (1..Len(fetchLog)) \X (1..READ_BATCH_SIZE) :
                    j <= Len(fetchLog[f].ids) /\ fetchLog[f].ids[j] = id})

\* C17: when the loop has ended, every tag that was in the store and eligible
\* by its timestamps when the run started has been returned by exactly one
\* fetch of the run.
C17_EachEligibleInOnePage ==
    LoopEnded =>
        LET rows == tag
        IN  \A id \in 1..(Len(freeTag) + ordinaryTags) :
                (Listed(rows[id]) /\ EligibleByTime(rows[id])) => TimesFetched(id) = 1

\* C18: without a client the run makes no database or engine call, the engine
\* has no index and no task, nothing throws, and onIndexUpdate returns as soon
\* as it is entered.
C18_NoClientNoEffect ==
    ~client =>
        /\ calls = <<>>
        /\ fetchLog = <<>>
        /\ engineTasks = <<>>
        /\ ~index
        /\ pc \in {"idle", "onIndexUpdate", "returned", "committed"}

\* C18 witness: onIndexUpdate has returned from a run without a client.
C18_Witness == ~client /\ pc = "returned" /\ Len(runLog) = 1

\* A fetch has raised an error: the call was made and no page came back.
FetchRaised == pc = "tagFindMany" /\ calls' # calls /\ fetchLog' = fetchLog

\* A submission has raised an error: the call was made and the engine has no new task.
SubmissionRaised == pc = "updateDocuments" /\ calls' # calls /\ engineTasks' = engineTasks

\* The run has ended with an error of a fetch or of a submission.
FailedInLoop ==
    /\ pc \in {"threw", "failed"}
    /\ calls # <<>>
    /\ calls[Len(calls)] \in {"tag.findMany", "updateDocuments"}

\* C19: an error of a fetch or of a submission leaves onIndexUpdate at once and
\* takes no batch back; after it the run has called waitForTasks for none of
\* its batches, the watermark is the one the run started with, and every
\* batch the run has submitted is a task of the engine with its documents.
C19_MidRunFailureAborts ==
    /\ [][(FetchRaised \/ SubmissionRaised) =>
            /\ pc' = "threw"
            /\ tagTasks' = tagTasks
            /\ engineTasks' = engineTasks]_vars
    /\ [](FailedInLoop =>
            /\ \A k \in 1..Len(calls) : calls[k] = "waitForTasks" => k < QueueReadAt
            /\ watermark = lastUpdatedAt
            /\ Len(tagTasks) = Len(NonEmptyPages)
                                - (IF calls[Len(calls)] = "updateDocuments" THEN 1 ELSE 0)
            /\ \A k \in 1..Len(tagTasks) :
                    /\ tagTasks[k] \in DocumentTasks
                    /\ Len(engineTasks[tagTasks[k]].docs) = NonEmptyPages[k].length)

\* C19 witness: the run has failed in its second fetch, after the engine has
\* applied the batch of the first page.
C19_Witness ==
    /\ pc = "failed"
    /\ calls[Len(calls)] = "tag.findMany"
    /\ Len(fetchLog) = 1
    /\ Len(tagTasks) = 1
    /\ engineTasks[tagTasks[1]].status = "succeeded"

\* The batch of notificationBatches that holds the processor with the key k.
BatchOf(k) ==
    CHOOSE b \in 1..Len(notificationBatches) :
        \E j \in 1..Len(notificationBatches[b]) : notificationBatches[b][j].key = k

\* The priority of the processor with the key k, 0 when it has none.
PriorityOf(k) == OrZero(notificationProcessors[k].priority)

\* C20: in the exported notificationBatches every processor is in a batch, a
\* batch of lower priority comes before a batch of higher priority, and two
\* processors are in the same batch exactly when they have the same priority,
\* a missing priority counting as 0.
C20_GroupedByPriority ==
    npc = "done" =>
        /\ Pushed = Len(notificationProcessors)
        /\ \A j, k \in 1..Len(notificationProcessors) :
                /\ PriorityOf(j) < PriorityOf(k) => BatchOf(j) < BatchOf(k)
                /\ PriorityOf(j) = PriorityOf(k) <=> BatchOf(j) = BatchOf(k)

\* ------------------------------------------------------ AutocompleteSearch

\* What the search client and its backend leave alone: the server's state and
\* the search box.
serverVars ==
    << client, freeTag, ordinaryTags, newTags, searchIndexUpdateQueue, watermark, processorVars,
       lastUpdatedAt, pc, offset, tagTasks, queuedItems, tags, setupTasks, index, engineTasks,
       fetchLog, calls, notificationVars >>

\* A text is a sequence of tokens; the empty string is <<>>.
Tokens == {"w", "#t", "civitai:1@2"}

Texts == UNION {[1..n -> Tokens] : n \in 0..MaxText}

\* The requests of a call: without params, or with params that have no query,
\* the empty query or another one; the params carry the hitsPerPage of the
\* component's <Configure>.
Requests ==
    {[params |-> <<>>]} \cup
    {[params |-> <<[query |-> q, hitsPerPage |-> DEFAULT_DROPDOWN_ITEM_LIMIT]>>] :
        q \in Optional({<<>>, <<"w">>})}

RequestLists == UNION {[1..n -> Requests] : n \in 0..MaxRequests}

\* !params?.query
NoQuery(request) ==
    \/ request.params = <<>>
    \/ request.params[1].query = <<>>
    \/ request.params[1].query[1] = <<>>

\* The result of lines 86-96.
EmptyResult ==
    [hits |-> <<>>, nbHits |-> 0, nbPages |-> 0, page |-> 0, processingTimeMS |-> 0,
     hitsPerPage |-> 0, exhaustiveNbHits |-> FALSE, query |-> <<>>, params |-> <<>>]

\* What the backend answers to a request when its index has n matching
\* documents, 1..n in the order of relevance: the first page of them, which has
\* the hitsPerPage of the request, and all of them when the request has none
\* (the backend's own page size is larger than the numbers of hits taken here).
BackendResult(request, n) ==
    LET hitsPerPage == IF request.params = <<>> THEN n ELSE request.params[1].hitsPerPage
    IN  [hits |-> [k \in 1..Min(n, hitsPerPage) |-> k], nbHits |-> n, nbPages |-> 1,
         page |-> 0, processingTimeMS |-> 1, hitsPerPage |-> hitsPerPage,
         exhaustiveNbHits |-> FALSE,
         query |-> IF NoQuery(request) THEN <<>> ELSE request.params[1].query[1],
         params |-> <<>>]

\* The numbers of hits a result set reports.
HitCounts == 0..(DEFAULT_DROPDOWN_ITEM_LIMIT + MaxMore)

\* searchClient.search with `some` in the place of `every`.
SearchClientSearchSome ==
    /\ spc = "search"
    /\ IF \E k \in 1..Len(requests) : NoQuery(requests[k])
       THEN /\ response' = <<[results |-> [k \in 1..Len(requests) |-> EmptyResult]]>>
            /\ spc' = "resolved"
            /\ UNCHANGED backendCalls
       ELSE /\ backendCalls' = Append(backendCalls, requests)
            /\ spc' = "forwarded"
            /\ UNCHANGED response
    /\ UNCHANGED << serverVars, requests, hitsVars, boxVars, status >>

\* searchClient.search(requests), lines 81-102: an empty result per request when
\* no request has a query, and meilisearch.search(requests) otherwise.
SearchClientSearch ==
    /\ spc = "search"
    /\ IF \A k \in 1..Len(requests) : NoQuery(requests[k])
       THEN /\ response' = <<[results |-> [k \in 1..Len(requests) |-> EmptyResult]]>>
            /\ spc' = "resolved"
            /\ UNCHANGED backendCalls
       ELSE /\ backendCalls' = Append(backendCalls, requests)
            /\ spc' = "forwarded"
            /\ UNCHANGED response
    /\ UNCHANGED << serverVars, requests, hitsVars, boxVars, status >>

\* The promise of meilisearch.search resolves: a result per request.
MeilisearchResolves ==
    /\ spc = "forwarded"
    /\ \E n \in [1..Len(requests) -> HitCounts] :
            response' = <<[results |-> [k \in 1..Len(requests) |->
                                            BackendResult(requests[k], n[k])]]>>
    /\ spc' = "resolved"
    /\ UNCHANGED << serverVars, requests, backendCalls, hitsVars, boxVars, status >>

\* The promise of meilisearch.search rejects.
MeilisearchRejects ==
    /\ spc = "forwarded"
    /\ spc' = "rejected"
    /\ UNCHANGED << serverVars, requests, response, backendCalls, hitsVars, boxVars, status >>

\* useInstantSearch and useHits after the promise has resolved: the result of
\* the component's index is the first one; no result leaves the last one.
UseHits ==
    /\ spc = "resolved"
    /\ results' = IF response[1].results = <<>> THEN results ELSE <<response[1].results[1]>>
    /\ status' = "idle"
    /\ spc' = "delivered"
    /\ UNCHANGED << serverVars, requests, response, backendCalls, hiddenIds, items, boxVars >>

\* useInstantSearch({catchError: true}) after the promise has rejected.
UseInstantSearchError ==
    /\ spc = "rejected"
    /\ status' = "error"
    /\ spc' = "delivered"
    /\ UNCHANGED << serverVars, requests, response, backendCalls, hitsVars, boxVars >>

\* anyHit?.name || anyHit?.title || anyHit?.username || anyHit?.id: the hits are
\* named by one word.
HitValue(hit) == <<"w">>

\* applyUserPreferences...({items: hits, ...}): the hits the preferences do not hide.
FilteredResults(hits) == SelectSeq(hits, LAMBDA hit : hit \notin hiddenIds)

ViewMore == [key |-> <<"view-more">>, value |-> query, hit |-> <<>>]

\* items with `>=` in the place of `>`.
ItemsAtTheLimit ==
    IF results = <<>> \/ results[1].nbHits = 0 THEN <<>>
    ELSE LET filteredResults == FilteredResults(results[1].hits)
             mapped == [k \in 1..Len(filteredResults) |->
                            [key |-> <<>>, value |-> HitValue(filteredResults[k]),
                             hit |-> <<filteredResults[k]>>]]
         IN  IF results[1].nbHits >= DEFAULT_DROPDOWN_ITEM_LIMIT
             THEN Append(mapped, ViewMore)
             ELSE mapped

\* const items = useMemo(...), lines 296-344: the hits that are left, each as an
\* item, and a "view more" item when there are more hits than the limit.
Items ==
    IF results = <<>> \/ results[1].nbHits = 0 THEN <<>>
    ELSE LET filteredResults == FilteredResults(results[1].hits)
             mapped == [k \in 1..Len(filteredResults) |->
                            [key |-> <<>>, value |-> HitValue(filteredResults[k]),
                             hit |-> <<filteredResults[k]>>]]
         IN  IF results[1].nbHits > DEFAULT_DROPDOWN_ITEM_LIMIT
             THEN Append(mapped, ViewMore)
             ELSE mapped

\* The prop limit of the autocomplete, lines 487-491.
Limit ==
    IF results # <<>> /\ results[1].nbHits > DEFAULT_DROPDOWN_ITEM_LIMIT
    THEN DEFAULT_DROPDOWN_ITEM_LIMIT + 1
    ELSE DEFAULT_DROPDOWN_ITEM_LIMIT

\* The component renders with what useHits has.
Render ==
    /\ spc = "delivered"
    /\ items' = Items
    /\ spc' = "rendered"
    /\ UNCHANGED << serverVars, requests, response, backendCalls, results, hiddenIds, boxVars,
                    status >>

\* A url: its pattern and what fills it.
Url(pattern, ix, id, q, more) ==
    [pattern |-> pattern, index |-> ix, id |-> id, query |-> q, more |-> more]

\* checkAIR(index, query), lines 582-605: the page of the model version when the
\* text starts with an AIR and the index is 'models', null otherwise.
CheckAIR(ix, text) ==
    IF ix = "models" /\ text # <<>> /\ text[1] = "civitai:1@2"
    THEN <<Url("/models/id?modelVersionId", ix, 1, <<>>, <<>>)>>
    ELSE <<>>

\* parseQuery(index, query), lines 607-632: for the index 'models' the filters of
\* the text are taken out of it, each as a filter and as a parameter of the
\* search page, and a text that was filters only becomes ' '; the text of
\* another index is left as it is. The white space between tokens is not
\* represented.
ParseQuery(ix, text) ==
    IF ix # "models"
    THEN [query |-> text, filters |-> <<>>, searchPageQuery |-> <<>>]
    ELSE LET rest == SelectSeq(text, LAMBDA t : t # "#t")
             n == Len(text) - Len(rest)
         IN  [query |-> IF rest = <<>> /\ n # 0 THEN <<" ">> ELSE rest,
              filters |-> [k \in 1..n |-> "tags.name = t"],
              searchPageQuery |-> [k \in 1..n |-> "tags=t"]]

\* processHitUrl(hit), lines 436-448, for the indexes 'models' and 'images'.
ProcessHitUrl(hit) ==
    IF indexName = "images"
    THEN Url("/index/id", indexName, hit, <<>>, <<>>)
    ELSE Url("/index/id/slugit(name)", indexName, hit, <<>>, <<>>)

\* The request InstantSearch makes for the component: the query of the search
\* box and the hitsPerPage of <Configure>.
ComponentRequest(q) ==
    [params |-> <<[query |-> <<q>>, hitsPerPage |-> DEFAULT_DROPDOWN_ITEM_LIMIT]>>]

\* The passive effects of the last render have run.
EffectsFlushed ==
    /\ refineDeps = <<debouncedSearch, query>>
    /\ clearDeps = <<debouncedSearch>>

\* onChange={setSearch}: the user changes the text to t.
SetSearch ==
    /\ EffectsFlushed
    /\ edits < MaxEdits
    /\ \E t \in Texts \ {search} : search' = t
    /\ edits' = edits + 1
    /\ editedSincePick' = (clicks > 0)
    /\ UNCHANGED << serverVars, clientVars, hitsVars, status, indexName, debouncedSearch, query,
                    selectedItem, filters, searchPageQuery, route, refineDeps, clearDeps,
                    clicks >>

\* handleClear, lines 380-383; the text can be cleared when there is a query.
HandleClear ==
    /\ EffectsFlushed
    /\ edits < MaxEdits
    /\ query # <<>>
    /\ search # <<>>
    /\ search' = <<>>
    /\ edits' = edits + 1
    /\ editedSincePick' = (clicks > 0)
    /\ UNCHANGED << serverVars, clientVars, hitsVars, status, indexName, debouncedSearch, query,
                    selectedItem, filters, searchPageQuery, route, refineDeps, clearDeps,
                    clicks >>

\* handleSubmit, lines 363-378: the search page of the text, when there is one.
HandleSubmit ==
    /\ EffectsFlushed
    /\ search # <<>>
    /\ route' = <<Url("/search/index?query&more", indexName, 0, search, searchPageQuery)>>
    /\ UNCHANGED << serverVars, clientVars, hitsVars, status, indexName, search,
                    debouncedSearch, query, selectedItem, filters, searchPageQuery, refineDeps,
                    clearDeps, edits, clicks, editedSincePick >>

\* useDebouncedValue(search, 300): the text has not changed for 300 ms.
Debounce ==
    /\ EffectsFlushed
    /\ debouncedSearch # search
    /\ debouncedSearch' = search
    /\ UNCHANGED << serverVars, clientVars, hitsVars, status, indexName, search, query,
                    selectedItem, filters, searchPageQuery, route, refineDeps, clearDeps, edits,
                    clicks, editedSincePick >>

\* The user picks an item of the dropdown: the autocomplete takes the item's
\* value as the text (onChange) and calls onItemSubmit, which is
\* handleItemClick, lines 385-399: the page of the hit, or the search page for
\* "view more", and the item is the selected one.
HandleItemClick ==
    /\ EffectsFlushed
    /\ spc = "rendered"
    /\ clicks < MaxClicks
    /\ \E k \in 1..Len(items) :
            LET item == items[k]
            IN  /\ search' = item.value
                /\ route' = IF item.hit # <<>>
                            THEN <<ProcessHitUrl(item.hit[1])>>
                            ELSE <<Url("/search/index?query", indexName, 0, item.value, <<>>)>>
                /\ selectedItem' = <<item>>
    /\ clicks' = clicks + 1
    /\ editedSincePick' = FALSE
    /\ UNCHANGED << serverVars, clientVars, hitsVars, status, indexName, debouncedSearch, query,
                    filters, searchPageQuery, refineDeps, clearDeps, edits >>

\* The first effect, lines 406-429, which runs after a render with another
\* [debouncedSearch, query] than the last time: nothing when the text is the
\* query, when an item is selected or when the search is in error; the page of
\* the AIR when the text is one; and otherwise the cleaned text becomes the
\* query, which makes InstantSearch search.
RefineEffect ==
    /\ refineDeps # <<debouncedSearch, query>>
    /\ refineDeps' = <<debouncedSearch, query>>
    /\ IF debouncedSearch = query \/ selectedItem # <<>> \/ status = "error"
       THEN UNCHANGED << query, filters, searchPageQuery, route, clientVars, status >>
       ELSE IF CheckAIR(indexName, debouncedSearch) # <<>>
       THEN /\ route' = CheckAIR(indexName, debouncedSearch)
            /\ UNCHANGED << query, filters, searchPageQuery, clientVars, status >>
       ELSE LET parsed == ParseQuery(indexName, debouncedSearch)
            IN  /\ query' = parsed.query
                /\ filters' = parsed.filters
                /\ searchPageQuery' = parsed.searchPageQuery
                /\ requests' = <<ComponentRequest(parsed.query)>>
                /\ response' = <<>>
                /\ spc' = "search"
                /\ status' = "loading"
                /\ UNCHANGED << route, backendCalls >>
    /\ UNCHANGED << serverVars, hitsVars, indexName, search, debouncedSearch, selectedItem,
                    clearDeps, edits, clicks, editedSincePick >>

\* The second effect, lines 431-434, which runs after the first one, after a
\* render with another debouncedSearch than the last time.
ClearSelectedEffect ==
    /\ refineDeps # <<>>
    /\ refineDeps[1] = debouncedSearch
    /\ clearDeps # <<debouncedSearch>>
    /\ clearDeps' = <<debouncedSearch>>
    /\ selectedItem' = <<>>
    /\ UNCHANGED << serverVars, clientVars, hitsVars, status, indexName, search,
                    debouncedSearch, query, filters, searchPageQuery, route, refineDeps, edits,
                    clicks, editedSincePick >>

\* The search box at rest, with the query q.
BoxAtRest(q) ==
    /\ indexName = "models"
    /\ search = q
    /\ debouncedSearch = q
    /\ query = q
    /\ selectedItem = <<>>
    /\ filters = <<>>
    /\ searchPageQuery = <<>>
    /\ route = <<>>
    /\ refineDeps = <<q, q>>
    /\ clearDeps = <<q>>
    /\ edits = 0
    /\ clicks = 0
    /\ editedSincePick = FALSE

\* No server: neither the tags index nor the notifications.
NoServer ==
    /\ client = FALSE
    /\ freeTag = <<>>
    /\ ordinaryTags = 0
    /\ searchIndexUpdateQueue = <<>>
    /\ watermark = <<>>
    /\ runsLeft = 0
    /\ NoRun
    /\ NoNotifications

\* One call of searchClient.search, and the dropdown made of its outcome. The
\* first request is the one of the component's index: it has the params of
\* <Configure> and of the search box.
InitDropdown ==
    /\ requests \in {r \in RequestLists : r # <<>> => r[1].params # <<>>}
    /\ response = <<>>
    /\ backendCalls = <<>>
    /\ spc = "search"
    /\ results = <<>>
    /\ hiddenIds \in SUBSET (1..MaxHidden)
    /\ items = <<>>
    /\ status = "loading"
    /\ BoxAtRest(IF requests = <<>> \/ NoQuery(requests[1]) THEN <<>>
                 ELSE requests[1].params[1].query[1])
    /\ NoServer

NextDropdown ==
    \/ SearchClientSearch
    \/ MeilisearchResolves
    \/ MeilisearchRejects
    \/ UseHits
    \/ UseInstantSearchError
    \/ Render

SpecDropdown == InitDropdown /\ [][NextDropdown]_vars

\* The component has mounted with an empty search box: InstantSearch makes its
\* first search and the effects have not run.
InitBox ==
    /\ indexName \in {"models", "images"}
    /\ search = <<>>
    /\ debouncedSearch = <<>>
    /\ query = <<>>
    /\ selectedItem = <<>>
    /\ filters = <<>>
    /\ searchPageQuery = <<>>
    /\ route = <<>>
    /\ refineDeps = <<>>
    /\ clearDeps = <<>>
    /\ edits = 0
    /\ clicks = 0
    /\ editedSincePick = FALSE
    /\ requests = <<ComponentRequest(<<>>)>>
    /\ response = <<>>
    /\ backendCalls = <<>>
    /\ spc = "search"
    /\ results = <<>>
    /\ hiddenIds = {}
    /\ items = <<>>
    /\ status = "loading"
    /\ NoServer

NextBox ==
    \/ SetSearch
    \/ HandleClear
    \/ HandleSubmit
    \/ Debounce
    \/ HandleItemClick
    \/ RefineEffect
    \/ ClearSelectedEffect
    \/ NextDropdown

\* The timer of the debounced text fires and React runs the effects of a render.
FairSearchBox ==
    InitBox /\ [][NextBox]_vars /\ WF_vars(Debounce) /\ WF_vars(RefineEffect)
        /\ WF_vars(ClearSelectedEffect)

\* --------------------------------------------------------------- C21..C24

RECURSIVE Concatenated(_)
Concatenated(batches) ==
    IF batches = <<>> THEN <<>>
    ELSE batches[1] \o Concatenated(SubSeq(batches, 2, Len(batches)))

\* The number of places of notificationBatches that hold the processor with the key k.
TimesBatched(k) ==
    Cardinality({<<b, j>> \in (1..Len(notificationBatches)) \X (1..MaxProcessors) :
                    j <= Len(notificationBatches[b]) /\ notificationBatches[b][j].key = k})

\* C21: in the exported notificationBatches every processor key is in exactly
\* one batch, the batches concatenated in order are the priority-sorted list,
\* and no batch is empty.
C21_PartitionIntoNonEmptyBatches ==
    npc = "done" =>
        /\ \A k \in 1..Len(notificationProcessors) : TimesBatched(k) = 1
        /\ Concatenated(notificationBatches) = SortByPriority(notificationProcessors)
        /\ \A b \in 1..Len(notificationBatches) : notificationBatches[b] # <<>>

\* C22: a call of searchClient.search in which no request has a query has not
\* called the backend and has resolved with one empty result (no hits, nbHits
\* 0) per request; a call in which a request has a query has called the
\* backend once, with the request list it was given.
C22_EmptyQueriesStayLocal ==
    spc # "search" =>
        IF \A k \in 1..Len(requests) : NoQuery(requests[k])
        THEN /\ backendCalls = <<>>
             /\ response # <<>>
             /\ Len(response[1].results) = Len(requests)
             /\ \A k \in 1..Len(requests) :
                    /\ response[1].results[k].hits = <<>>
                    /\ response[1].results[k].nbHits = 0
        ELSE backendCalls = <<requests>>

\* Two requests, the first with a query and the second without one, have gone
\* to the backend.
C22_Witness ==
    /\ Len(requests) = 2
    /\ ~NoQuery(requests[1])
    /\ NoQuery(requests[2])
    /\ spc = "rendered"
    /\ backendCalls = <<requests>>

\* The query changes only when no item is selected and the search is not in error.
RefinedOnlyWhenFree ==
    [][query' # query => selectedItem = <<>> /\ status # "error"]_vars

\* A change of the debounced text leads to no selected item.
ChangeClearsSelected ==
    (clearDeps # <<>> /\ clearDeps # <<debouncedSearch>>) ~> (selectedItem = <<>>)

\* The query is the cleaned value of the text, which is the debounced one.
RefinedToText ==
    /\ debouncedSearch = search
    /\ query = ParseQuery(indexName, search).query

\* After a pick and a change of the text by the user, the query is in the end
\* the cleaned value of the text, unless the search is in error, the text is an
\* AIR or the user picks again.
EditAfterPickIsRefined ==
    (clicks > 0 /\ editedSincePick) ~>
        \/ RefinedToText
        \/ status = "error"
        \/ CheckAIR(indexName, search) # <<>>
        \/ ~editedSincePick

\* C23: the query is refined only when no item is selected and the search is
\* not in error; every change of the debounced text clears the selected item;
\* and after the user has picked an item and then changed the text, the query
\* is eventually the cleaned value of the latest debounced text (no error, no
\* AIR).
C23_RefinementFollowsDebouncedText ==
    /\ RefinedOnlyWhenFree
    /\ ChangeClearsSelected
    /\ EditAfterPickIsRefined

\* The places of items that hold the "view more" entry.
ViewMorePlaces == {k \in 1..Len(items) : items[k].key = <<"view-more">>}

\* results.nbHits, 0 without results.
NbHits == IF results = <<>> THEN 0 ELSE results[1].nbHits

\* C24: the rendered items hold a "view more" entry iff the result set has more
\* than DEFAULT_DROPDOWN_ITEM_LIMIT hits, as their last entry; they are empty
\* when there are no results; and they are not more than the limit of the
\* dropdown, which is 6, or 7 with the "view more" entry.
C24_ViewMoreIffMoreThanLimit ==
    spc = "rendered" =>
        /\ ViewMorePlaces # {} <=> NbHits > DEFAULT_DROPDOWN_ITEM_LIMIT
        /\ ViewMorePlaces \subseteq {Len(items)}
        /\ NbHits = 0 => items = <<>>
        /\ Len(items) <= Limit
        /\ Limit = IF ViewMorePlaces # {} THEN 7 ELSE 6

\* Seven hits, none of them hidden: six items and the "view more" entry.
C24_Witness ==
    /\ spc = "rendered"
    /\ NbHits = DEFAULT_DROPDOWN_ITEM_LIMIT + 1
    /\ Len(items) = DEFAULT_DROPDOWN_ITEM_LIMIT + 1
    /\ ViewMorePlaces = {Len(items)}

====
